---- MODULE Spec2Model ----
(***************************************************************************)
(* Request construction and response dispatch of the Friendli serving API  *)
(* client (friendli/sdk/api/base.py): BaseAPI builds a transport request,   *)
(* ServingAPI and AsyncServingAPI check the call's preconditions, send the  *)
(* request and translate HTTP failures into APIError.                       *)
(*                                                                         *)
(* Representation.                                                         *)
(*  - A Python value (None, str, bytes) is a record [t, v].                *)
(*  - A dict is a function from its keys.                                  *)
(*  - A path is a sequence of tokens, "/" being a token of its own, so     *)
(*    that os.path.join and URL resolution work on the separators.         *)
(*    Paths hold no empty segment and no "." or ".." segment.              *)
(*  - A response body is a sequence of bytes, a decoded text a sequence    *)
(*    of code points.                                                      *)
(*  - A Python str that is a literal of the source is [lit |-> ...].       *)
(* One ServingAPI object and one AsyncServingAPI object are constructed    *)
(* with the same arguments and each serves one call with the same          *)
(* arguments against the same server behaviour.                            *)
(***************************************************************************)
EXTENDS Integers, Sequences, FiniteSets, TLC

VARIABLES
    target,          \* [v |-> [host, endpoint_id, use_protobuf]]: fields of the API object
    iface,           \* [api_path, content_type]: the abstract properties of the call type
    args,            \* [data0, stream, model]: the arguments of _request
    server,          \* what the transport does with the request that is sent
    pc,              \* [v |-> position of the call inside _request]
    data,            \* [v |-> the caller's payload dict, as the call has left it]
    url,             \* [v |-> result of _build_url]
    content,         \* [v |-> result of _build_content]
    files,           \* [v |-> result of _build_files]
    request,         \* [v |-> the httpx.Request built by client.build_request]
    response,        \* [v |-> the httpx.Response received from client.send]
    outcome,         \* [v |-> how _request ended: an exception or the returned response]
    trace,           \* [v |-> the steps the call has taken, in order]
    pbParsed,        \* [v |-> number of json_format.ParseDict invocations]
    translatorRead,  \* [v |-> number of response.read()/aread() calls of _check_http_error]
    wire             \* [v |-> the requests the transport was given to send, in order]

vars == << target, iface, args, server, pc, data, url, content, files, request,
           response, outcome, trace, pbParsed, translatorRead, wire >>

Variants == {"sync", "async"}

-----------------------------------------------------------------------------
(* Bounds *)

MaxBodyLen == 2
MaxPathLen == 3

-----------------------------------------------------------------------------
(* Python values *)

None == [t |-> "none", v |-> ""]
Str(s) == [t |-> "str", v |-> s]
Bytes(s) == [t |-> "bytes", v |-> s]

EmptyDict == [k \in {} |-> None]

\* d[key] = val
DictSet(d, key, val) ==
    [k \in (DOMAIN d) \cup {key} |-> IF k = key THEN val ELSE d[k]]

\* A str of the source text, and a str obtained by decoding bytes.
Lit(s) == [lit |-> s, cps |-> << >>]
Decoded(cps) == [lit |-> "", cps |-> cps]

IsPrefix(p, s) ==
    /\ Len(p) <= Len(s)
    /\ \A i \in 1..Len(p) : s[i] = p[i]

-----------------------------------------------------------------------------
(* URLs *)

ProductionOrigin == "https://inference.friendli.ai"
OtherOrigin == "http://localhost:8000"

\* httpx.URL(base_url)
URL(origin, path) == [origin |-> origin, path |-> path]

NoUrl == URL("", << >>)

\* os.path.join(a, b)
OsPathJoin(a, b) ==
    IF Len(b) > 0 /\ b[1] = "/" THEN b
    ELSE IF Len(a) = 0 \/ a[Len(a)] = "/" THEN a \o b
    ELSE a \o << "/" >> \o b

\* The base path up to and including its last "/".
RECURSIVE DirOf(_)
DirOf(p) ==
    IF Len(p) = 0 THEN << "/" >>
    ELSE IF p[Len(p)] = "/" THEN p
    ELSE DirOf(SubSeq(p, 1, Len(p) - 1))

\* httpx.URL.join(ref) for a reference that is a path only
UrlJoin(base, ref) ==
    IF Len(ref) = 0 THEN base
    ELSE IF ref[1] = "/" THEN URL(base.origin, ref)
    ELSE URL(base.origin, DirOf(base.path) \o ref)

_build_url_NoDedicated(host, endpoint_id, api_path) ==
    UrlJoin(host, OsPathJoin(<< >>, api_path))

_build_url(host, endpoint_id, api_path) ==
    LET path == IF endpoint_id # None THEN << "dedicated" >> ELSE << >>
    IN  UrlJoin(host, OsPathJoin(path, api_path))

-----------------------------------------------------------------------------
(* Request builder *)

MultipartPrefix == << "multipart/form-data" >>

\* self._content_type.startswith("multipart/form-data")
IsMultipart(content_type) == IsPrefix(MultipartPrefix, content_type)

NoFiles == [present |-> FALSE, parts |-> EmptyDict]

FilePart(val) == [filename |-> None, value |-> val]

_build_files_KeepNull(content_type, d) ==
    IF IsMultipart(content_type)
    THEN [present |-> TRUE, parts |-> [k \in DOMAIN d |-> FilePart(d[k])]]
    ELSE NoFiles

_build_files(content_type, d) ==
    IF IsMultipart(content_type)
    THEN [present |-> TRUE,
          parts |-> [k \in {key \in DOMAIN d : d[key] # None} |-> FilePart(d[k])]]
    ELSE NoFiles

InjectModel_DropOthers(endpoint_id, d, model) ==
    DictSet(EmptyDict, "model", IF endpoint_id # None THEN endpoint_id ELSE model)

\* The assignment to data["model"] that opens _build_content.
InjectModel(endpoint_id, d, model) ==
    IF endpoint_id # None
    THEN DictSet(d, "model", endpoint_id)
    ELSE DictSet(d, "model", model)

\* The fields of the request message class (the abstract _request_pb_cls).
SchemaFields == {"model", "prompt"}

UnsetContent == [enc |-> "unset", fields |-> EmptyDict]
NoneContent == [enc |-> "none", fields |-> EmptyDict]

\* json.dumps(d).encode(): the JSON object with every key of d, null included;
\* a bytes value is not JSON serializable.
JsonDumps(d) ==
    IF \E k \in DOMAIN d : d[k].t = "bytes"
    THEN [raised |-> "TypeError", content |-> UnsetContent]
    ELSE [raised |-> "", content |-> [enc |-> "json", fields |-> d]]

\* json_format.ParseDict(d, request_pb) and request_pb.SerializeToString():
\* a key that is no field of the message fails the parse, a None value leaves
\* its field unset, a string field takes a str only.
PbSerialize(d) ==
    IF \E k \in DOMAIN d : k \notin SchemaFields \/ d[k].t = "bytes"
    THEN [raised |-> "ParseError", content |-> UnsetContent]
    ELSE [raised |-> "",
          content |-> [enc |-> "pb",
                       fields |-> [k \in {key \in DOMAIN d : d[key] # None} |-> d[k]]]]

SerializeContent_BinaryFirst(content_type, use_protobuf, d) ==
    IF use_protobuf
    THEN [parsed |-> 1] @@ PbSerialize(d)
    ELSE IF IsMultipart(content_type)
    THEN [parsed |-> 0, raised |-> "", content |-> NoneContent]
    ELSE [parsed |-> 0] @@ JsonDumps(d)

\* The body of _build_content after the injection of data["model"].
SerializeContent(content_type, use_protobuf, d) ==
    IF IsMultipart(content_type)
    THEN [parsed |-> 0, raised |-> "", content |-> NoneContent]
    ELSE IF use_protobuf
    THEN [parsed |-> 1] @@ PbSerialize(d)
    ELSE [parsed |-> 0] @@ JsonDumps(d)

\* {"Content-Type": self._content_type, **get_auth_header()}
_get_headers(content_type) ==
    [content_type |-> content_type, auth |-> "get_auth_header()"]

NoRequest ==
    [built |-> FALSE, url |-> NoUrl, content |-> UnsetContent, files |-> NoFiles,
     headers |-> _get_headers(<< >>)]

-----------------------------------------------------------------------------
(* Call executors: precondition checks *)

\* The messages of the two ValueErrors (the source sets the word model in
\* backquotes).
ModelRequired == Lit("model is required for serverless endpoints.")
ModelNotAllowed == Lit("model is not allowed for dedicated endpoints.")
NoMessage == Lit("")

ProductionUrl == URL(ProductionOrigin, << >>)

\* The two checks that open ServingAPI._request: the message of the ValueError
\* raised, NoMessage when none is.
ServingAPI_precondition(host, endpoint_id, model) ==
    IF host = ProductionUrl /\ endpoint_id = None /\ model = None
    THEN ModelRequired
    ELSE IF endpoint_id # None /\ model # None
    THEN ModelNotAllowed
    ELSE NoMessage

\* The two checks that open AsyncServingAPI._request.
AsyncServingAPI_precondition(host, endpoint_id, model) ==
    IF endpoint_id = None /\ model = None
    THEN ModelRequired
    ELSE IF endpoint_id # None /\ model # None
    THEN ModelNotAllowed
    ELSE NoMessage

-----------------------------------------------------------------------------
(* Error translator *)

NotFoundMessage ==
    Lit("Endpoint is not found. This may be due to an invalid model name. See https://docs.friendli.ai/guides/serverless_endpoints/pricing to find out availble models.")

IsCont(b) == b >= 128 /\ b <= 191

\* bytes.decode(): strict UTF-8.
RECURSIVE Utf8DecodeFrom(_, _, _)
Utf8DecodeFrom(b, i, acc) ==
    IF i > Len(b) THEN [ok |-> TRUE, cps |-> acc]
    ELSE LET b0 == b[i]
             has(n) == i + n <= Len(b)
             bad == [ok |-> FALSE, cps |-> << >>]
         IN  IF b0 < 128
             THEN Utf8DecodeFrom(b, i + 1, Append(acc, b0))
             ELSE IF b0 >= 194 /\ b0 <= 223
             THEN IF has(1) /\ IsCont(b[i + 1])
                  THEN Utf8DecodeFrom(b, i + 2,
                           Append(acc, (b0 - 192) * 64 + (b[i + 1] - 128)))
                  ELSE bad
             ELSE IF b0 >= 224 /\ b0 <= 239
             THEN IF /\ has(2)
                     /\ IsCont(b[i + 1])
                     /\ IsCont(b[i + 2])
                     /\ (b0 = 224 => b[i + 1] >= 160)
                     /\ (b0 = 237 => b[i + 1] <= 159)
                  THEN Utf8DecodeFrom(b, i + 3,
                           Append(acc, (b0 - 224) * 4096 + (b[i + 1] - 128) * 64
                                       + (b[i + 2] - 128)))
                  ELSE bad
             ELSE IF b0 >= 240 /\ b0 <= 244
             THEN IF /\ has(3)
                     /\ IsCont(b[i + 1])
                     /\ IsCont(b[i + 2])
                     /\ IsCont(b[i + 3])
                     /\ (b0 = 240 => b[i + 1] >= 144)
                     /\ (b0 = 244 => b[i + 1] <= 143)
                  THEN Utf8DecodeFrom(b, i + 4,
                           Append(acc, (b0 - 240) * 262144 + (b[i + 1] - 128) * 4096
                                       + (b[i + 2] - 128) * 64 + (b[i + 3] - 128)))
                  ELSE bad
             ELSE bad

Utf8Decode(b) == Utf8DecodeFrom(b, 1, << >>)

\* response.raise_for_status() returns without raising: response.is_success
IsSuccess(status) == status >= 200 /\ status <= 299

NoResponse == [received |-> FALSE, status |-> 0, body |-> << >>, buffered |-> FALSE]

ServingAPI_check_http_error_ReadsOn404(resp) ==
    IF IsSuccess(resp.status)
    THEN [raised |-> "", msg |-> NoMessage, reads |-> 0]
    ELSE IF Utf8Decode(resp.body).ok
    THEN [raised |-> "APIError", msg |-> Decoded(Utf8Decode(resp.body).cps), reads |-> 1]
    ELSE [raised |-> "UnicodeDecodeError", msg |-> NoMessage, reads |-> 1]

\* ServingAPI._check_http_error: the exception raised ("" when none), its
\* message, and the number of response.read() calls made.
ServingAPI_check_http_error(resp) ==
    IF IsSuccess(resp.status)
    THEN [raised |-> "", msg |-> NoMessage, reads |-> 0]
    ELSE IF resp.status = 404
    THEN [raised |-> "APIError", msg |-> NotFoundMessage, reads |-> 0]
    ELSE IF Utf8Decode(resp.body).ok
    THEN [raised |-> "APIError", msg |-> Decoded(Utf8Decode(resp.body).cps), reads |-> 1]
    ELSE [raised |-> "UnicodeDecodeError", msg |-> NoMessage, reads |-> 1]

\* AsyncServingAPI._check_http_error, with response.aread().
AsyncServingAPI_check_http_error(resp) ==
    IF IsSuccess(resp.status)
    THEN [raised |-> "", msg |-> NoMessage, reads |-> 0]
    ELSE IF resp.status = 404
    THEN [raised |-> "APIError", msg |-> NotFoundMessage, reads |-> 0]
    ELSE IF Utf8Decode(resp.body).ok
    THEN [raised |-> "APIError", msg |-> Decoded(Utf8Decode(resp.body).cps), reads |-> 1]
    ELSE [raised |-> "UnicodeDecodeError", msg |-> NoMessage, reads |-> 1]

-----------------------------------------------------------------------------
(* Input domains *)

SeqsUpTo(S, n) == UNION {[1..k -> S] : k \in 0..n}

Segments == {"v1", "dedicated"}

\* Separators and segments alternate.
WellFormedPath(p) == \A i \in 1..(Len(p) - 1) : (p[i] = "/") # (p[i + 1] = "/")

Paths == {p \in SeqsUpTo(Segments \cup {"/"}, MaxPathLen) : WellFormedPath(p)}

\* The path of a base URL is empty or absolute.
BaseUrls ==
    {URL(o, p) : o \in {ProductionOrigin, OtherOrigin},
                 p \in {q \in Paths : Len(q) = 0 \/ q[1] = "/"}}

CompletionsPath == << "v1", "/", "completions" >>

JsonType == << "application/json" >>
MultipartType == << "multipart/form-data" >>
MultipartBoundaryType == << "multipart/form-data", "; boundary=b" >>

Prompts ==
    { EmptyDict,
      [k \in {"prompt"} |-> None],
      [k \in {"prompt"} |-> Str("hi")],
      [k \in {"prompt"} |-> Bytes("png")],
      [k \in {"prompt", "extra"} |-> Str("hi")] }

Payloads == Prompts \cup {DictSet(d, "model", Str("stale")) : d \in Prompts}

ByteAlphabet == {65, 195, 169, 255}

Bodies == SeqsUpTo(ByteAlphabet, MaxBodyLen)

StatusCodes == {200, 299, 300, 404, 500}

TransportFailure == [kind |-> "fail", status |-> 0, body |-> << >>]
Answer(status, body) == [kind |-> "response", status |-> status, body |-> body]

-----------------------------------------------------------------------------
(* State *)

NoOutcome == [kind |-> "", msg |-> NoMessage, response |-> NoResponse]
Raised(kind, msg) == [kind |-> kind, msg |-> msg, response |-> NoResponse]
Returned(resp) == [kind |-> "return", msg |-> NoMessage, response |-> resp]

\* BaseAPI.__init__ for both objects, and the arguments of the two calls.
InitWith(hosts, apiPaths, endpointIds, models, contentTypes, pbFlags, payloads, streams, servers) ==
    /\ \E h \in hosts, e \in endpointIds, pb \in pbFlags :
         target = [v \in Variants |-> [host |-> h, endpoint_id |-> e, use_protobuf |-> pb]]
    /\ \E a \in apiPaths, ct \in contentTypes :
         iface = [api_path |-> a, content_type |-> ct]
    /\ \E d \in payloads, st \in streams, m \in models :
         /\ args = [data0 |-> d, stream |-> st, model |-> m]
         /\ data = [v \in Variants |-> d]
    /\ server \in servers
    /\ pc = [v \in Variants |-> "check"]
    /\ url = [v \in Variants |-> NoUrl]
    /\ content = [v \in Variants |-> UnsetContent]
    /\ files = [v \in Variants |-> NoFiles]
    /\ request = [v \in Variants |-> NoRequest]
    /\ response = [v \in Variants |-> NoResponse]
    /\ outcome = [v \in Variants |-> NoOutcome]
    /\ trace = [v \in Variants |-> << >>]
    /\ pbParsed = [v \in Variants |-> 0]
    /\ translatorRead = [v \in Variants |-> 0]
    /\ wire = [v \in Variants |-> << >>]

Init ==
    InitWith({ProductionUrl, URL(OtherOrigin, << >>)}, {CompletionsPath},
             {None, Str("ep-1")}, {None, Str("m-1")},
             {JsonType, MultipartType, MultipartBoundaryType}, BOOLEAN, Payloads, BOOLEAN,
             {TransportFailure}
                 \cup {Answer(s, b) : s \in {200, 404, 500}, b \in {<< 65 >>, << 255 >>}})

InitUrl ==
    InitWith(BaseUrls, Paths, {None, Str("ep-1")}, {None, Str("m-1")}, {JsonType},
             {FALSE}, {EmptyDict, [k \in {"prompt"} |-> Str("hi")]}, {FALSE},
             {Answer(200, << >>)})

InitErr ==
    InitWith({URL(OtherOrigin, << >>)}, {CompletionsPath}, {None}, {Str("m-1")},
             {JsonType}, {FALSE}, {[k \in {"prompt"} |-> Str("hi")]}, BOOLEAN,
             {TransportFailure} \cup {Answer(s, b) : s \in StatusCodes, b \in Bodies})

-----------------------------------------------------------------------------
(* The steps of _request *)

Precondition(v, host, endpoint_id, model) ==
    IF v = "sync"
    THEN ServingAPI_precondition(host, endpoint_id, model)
    ELSE AsyncServingAPI_precondition(host, endpoint_id, model)

CheckHttpError(v, resp) ==
    IF v = "sync"
    THEN ServingAPI_check_http_error(resp)
    ELSE AsyncServingAPI_check_http_error(resp)

\* The two precondition checks.
CheckPreconditions(v) ==
    /\ pc[v] = "check"
    /\ LET msg == Precondition(v, target[v].host, target[v].endpoint_id, args.model)
       IN  IF msg # NoMessage
           THEN /\ outcome' = [outcome EXCEPT ![v] = Raised("ValueError", msg)]
                /\ pc' = [pc EXCEPT ![v] = "done"]
                /\ trace' = [trace EXCEPT ![v] = Append(@, "check")]
           ELSE /\ outcome' = outcome
                /\ pc' = [pc EXCEPT ![v] = "build_url"]
                /\ trace' = [trace EXCEPT ![v] = Append(@, "check")]
    /\ UNCHANGED << target, iface, args, server, data, url, content, files, request,
                    response, pbParsed, translatorRead, wire >>

\* _build_request evaluates its arguments in order: url=self._build_url()
BuildUrl(v) ==
    /\ pc[v] = "build_url"
    /\ url' = [url EXCEPT ![v] =
                  _build_url(target[v].host, target[v].endpoint_id, iface.api_path)]
    /\ pc' = [pc EXCEPT ![v] = "build_content"]
    /\ trace' = [trace EXCEPT ![v] = Append(@, "url")]
    /\ UNCHANGED << target, iface, args, server, data, content, files, request,
                    response, outcome, pbParsed, translatorRead, wire >>

\* content=self._build_content(data, model)
BuildContent(v) ==
    /\ pc[v] = "build_content"
    /\ LET d == InjectModel(target[v].endpoint_id, data[v], args.model)
           r == SerializeContent(iface.content_type, target[v].use_protobuf, d)
       IN  /\ data' = [data EXCEPT ![v] = d]
           /\ pbParsed' = [pbParsed EXCEPT ![v] = @ + r.parsed]
           /\ content' = [content EXCEPT ![v] = r.content]
           /\ trace' = [trace EXCEPT ![v] = @ \o << "inject", "serialize" >>]
           /\ IF r.raised # ""
              THEN /\ outcome' = [outcome EXCEPT ![v] = Raised(r.raised, NoMessage)]
                   /\ pc' = [pc EXCEPT ![v] = "done"]
              ELSE /\ outcome' = outcome
                   /\ pc' = [pc EXCEPT ![v] = "build_files"]
    /\ UNCHANGED << target, iface, args, server, url, files, request, response,
                    translatorRead, wire >>

\* files=self._build_files(data)
BuildFiles(v) ==
    /\ pc[v] = "build_files"
    /\ files' = [files EXCEPT ![v] = _build_files(iface.content_type, data[v])]
    /\ pc' = [pc EXCEPT ![v] = "build_request"]
    /\ trace' = [trace EXCEPT ![v] = Append(@, "files")]
    /\ UNCHANGED << target, iface, args, server, data, url, content, request,
                    response, outcome, pbParsed, translatorRead, wire >>

\* headers=self._get_headers(), then self._client.build_request(...)
BuildRequest(v) ==
    /\ pc[v] = "build_request"
    /\ request' = [request EXCEPT ![v] =
                      [built |-> TRUE, url |-> url[v], content |-> content[v],
                       files |-> files[v],
                       headers |-> _get_headers(iface.content_type)]]
    /\ pc' = [pc EXCEPT ![v] = "send"]
    /\ trace' = [trace EXCEPT ![v] = Append(@, "build")]
    /\ UNCHANGED << target, iface, args, server, data, url, content, files,
                    response, outcome, pbParsed, translatorRead, wire >>

\* response = self._client.send(request=request, stream=stream): a transport
\* failure propagates; without stream the body is read before send returns.
Send(v) ==
    /\ pc[v] = "send"
    /\ wire' = [wire EXCEPT ![v] = Append(@, request[v])]
    /\ trace' = [trace EXCEPT ![v] = Append(@, "send")]
    /\ IF server.kind = "fail"
       THEN /\ outcome' = [outcome EXCEPT ![v] = Raised("TransportError", NoMessage)]
            /\ pc' = [pc EXCEPT ![v] = "done"]
            /\ response' = response
       ELSE /\ outcome' = outcome
            /\ pc' = [pc EXCEPT ![v] = "translate"]
            /\ response' = [response EXCEPT ![v] =
                               [received |-> TRUE, status |-> server.status,
                                body |-> server.body, buffered |-> ~args.stream]]
    /\ UNCHANGED << target, iface, args, server, data, url, content, files, request,
                    pbParsed, translatorRead >>

Translate_RetryOnError(v) ==
    /\ pc[v] = "translate"
    /\ LET r == CheckHttpError(v, response[v])
       IN  /\ translatorRead' = [translatorRead EXCEPT ![v] = @ + r.reads]
           /\ response' = [response EXCEPT ![v].buffered = @ \/ r.reads > 0]
           /\ trace' = [trace EXCEPT ![v] = Append(@, "translate")]
           /\ outcome' = outcome
           /\ pc' = [pc EXCEPT ![v] = IF r.raised # "" THEN "send" ELSE "return"]
    /\ UNCHANGED << target, iface, args, server, data, url, content, files, request,
                    pbParsed, wire >>

\* self._check_http_error(response)
Translate(v) ==
    /\ pc[v] = "translate"
    /\ LET r == CheckHttpError(v, response[v])
       IN  /\ translatorRead' = [translatorRead EXCEPT ![v] = @ + r.reads]
           /\ response' = [response EXCEPT ![v].buffered = @ \/ r.reads > 0]
           /\ trace' = [trace EXCEPT ![v] = Append(@, "translate")]
           /\ IF r.raised # ""
              THEN /\ outcome' = [outcome EXCEPT ![v] = Raised(r.raised, r.msg)]
                   /\ pc' = [pc EXCEPT ![v] = "done"]
              ELSE /\ outcome' = outcome
                   /\ pc' = [pc EXCEPT ![v] = "return"]
    /\ UNCHANGED << target, iface, args, server, data, url, content, files, request,
                    pbParsed, wire >>

\* return response
Return(v) ==
    /\ pc[v] = "return"
    /\ outcome' = [outcome EXCEPT ![v] = Returned(response[v])]
    /\ pc' = [pc EXCEPT ![v] = "done"]
    /\ trace' = [trace EXCEPT ![v] = Append(@, "return")]
    /\ UNCHANGED << target, iface, args, server, data, url, content, files, request,
                    response, pbParsed, translatorRead, wire >>

Next ==
    \E v \in Variants :
        \/ CheckPreconditions(v)
        \/ BuildUrl(v)
        \/ BuildContent(v)
        \/ BuildFiles(v)
        \/ BuildRequest(v)
        \/ Send(v)
        \/ Translate(v)
        \/ Return(v)

Spec == Init /\ [][Next]_vars

SpecUrl == InitUrl /\ [][Next]_vars

SpecErr == InitErr /\ [][Next]_vars

-----------------------------------------------------------------------------
(* Vocabulary of the properties *)

EndpointSet(v) == target[v].endpoint_id # None
ModelSet == args.model # None
ExactlyOneSet(v) == EndpointSet(v) # ModelSet

MultipartCall == iface.content_type[1] = "multipart/form-data"

UrlBuilt(v) == pc[v] \notin {"check", "build_url"} /\ outcome[v].kind # "ValueError"
Serialized(v) == pc[v] \notin {"check", "build_url", "build_content"}
                     /\ outcome[v].kind # "ValueError"
Translated(v) == pc[v] \in {"return", "done"} /\ response[v].received

\* The path is /dedicated or goes on below /dedicated/.
BeginsWithDedicated(path) ==
    /\ Len(path) >= 2
    /\ path[1] = "/"
    /\ path[2] = "dedicated"
    /\ (Len(path) >= 3 => path[3] = "/")

IsRelative(path) == Len(path) = 0 \/ path[1] # "/"

\* The path has no directory but the root.
RootDirectory(path) == \A i \in 2..Len(path) : path[i] # "/"

NonNullFields(d) == {k \in DOMAIN d : d[k] # None}

CallOrder ==
    << "check", "url", "inject", "serialize", "files", "build", "send", "translate",
       "return" >>

-----------------------------------------------------------------------------
(* C1 *)

\* C1: in both executors, a call that got past the precondition checks has
\* exactly one of endpoint_id and model set, and a call with both or neither
\* set has raised the precondition error, built no request and sent nothing.
C1_PreconditionContract ==
    \A v \in Variants :
        pc[v] # "check" =>
            /\ (outcome[v].kind # "ValueError" => ExactlyOneSet(v))
            /\ (~ExactlyOneSet(v) =>
                    /\ outcome[v].kind = "ValueError"
                    /\ ~request[v].built
                    /\ wire[v] = << >>)

(* C2 *)

\* C2: once both executors have finished the same call they have reached the
\* same outcome (same exception with the same message, or the same response)
\* and have built and sent the same request.
C2_SyncAsyncSameOutcome ==
    (pc["sync"] = "done" /\ pc["async"] = "done") =>
        /\ outcome["sync"] = outcome["async"]
        /\ request["sync"] = request["async"]
        /\ wire["sync"] = wire["async"]

(* C3 *)

\* C3 as stated: for every base_url and api_path, the path of the built URL
\* begins with the dedicated segment exactly when endpoint_id is set.
C3_DedicatedPrefixAlways ==
    \A v \in Variants :
        UrlBuilt(v) => (BeginsWithDedicated(url[v].path) <=> EndpointSet(v))

\* C3 amended: with endpoint_id set, a relative api_path and a base_url whose
\* path has no directory but the root, the URL path is /dedicated/ followed by
\* api_path; with endpoint_id absent and neither the base_url path nor api_path
\* beginning with the dedicated segment, the URL path does not begin with it.
\* Both hold whatever the payload.
C3_DedicatedPrefix ==
    \A v \in Variants :
        UrlBuilt(v) =>
            /\ ( /\ EndpointSet(v)
                 /\ IsRelative(iface.api_path)
                 /\ RootDirectory(target[v].host.path)
                 => /\ BeginsWithDedicated(url[v].path)
                    /\ url[v].path = << "/", "dedicated", "/" >> \o iface.api_path
                    /\ url[v].origin = target[v].host.origin )
            /\ ( /\ ~EndpointSet(v)
                 /\ ~BeginsWithDedicated(target[v].host.path)
                 /\ ~BeginsWithDedicated(iface.api_path)
                 /\ ~BeginsWithDedicated(<< "/" >> \o iface.api_path)
                 => ~BeginsWithDedicated(url[v].path) )

C3_Witness ==
    /\ UrlBuilt("sync") /\ EndpointSet("sync")
    /\ BeginsWithDedicated(url["sync"].path)
    /\ IsRelative(iface.api_path) /\ Len(iface.api_path) = 3
    /\ RootDirectory(target["sync"].host.path)
    /\ args.data0 # EmptyDict
    /\ UrlBuilt("async")

(* C4 *)

\* C4: after the error translator of either executor has run on a response of
\* status 404, the call has raised APIError with the fixed guidance message,
\* the translator has not read the body, and a streamed body is still unread.
C4_NotFoundFixedMessage ==
    \A v \in Variants :
        (Translated(v) /\ response[v].status = 404) =>
            /\ outcome[v] = Raised("APIError", NotFoundMessage)
            /\ translatorRead[v] = 0
            /\ response[v].buffered = ~args.stream

C4_Witness ==
    /\ Translated("sync") /\ Translated("async")
    /\ response["sync"].status = 404 /\ response["async"].status = 404
    /\ Len(response["sync"].body) > 0
    /\ args.stream

(* C5 *)

\* C5: after the error translator has run, a 2xx response has raised nothing,
\* and a response of any other status but 404 has had its body read in full
\* and has raised APIError with the decoded body as its message.
C5_ErrorBodyVerbatim ==
    \A v \in Variants :
        Translated(v) =>
            IF response[v].status >= 200 /\ response[v].status <= 299
            THEN outcome[v].kind \in {"", "return"} /\ translatorRead[v] = 0
            ELSE response[v].status # 404 =>
                    /\ translatorRead[v] = 1
                    /\ response[v].buffered
                    /\ outcome[v].kind = "APIError"
                    /\ outcome[v].msg = Decoded(Utf8Decode(response[v].body).cps)

(* C6 *)

\* C6: a built multipart request has no body (content is None) and one file
\* part, with a None filename, for each field of the payload whose value is
\* not None, and no other part; a built request of another content type has
\* no file parts.
C6_MultipartFiles ==
    \A v \in Variants :
        request[v].built =>
            IF MultipartCall
            THEN /\ request[v].content = NoneContent
                 /\ request[v].files.present
                 /\ DOMAIN request[v].files.parts = NonNullFields(data[v])
                 /\ \A k \in DOMAIN request[v].files.parts :
                        request[v].files.parts[k] = [filename |-> None, value |-> data[v][k]]
            ELSE request[v].files = NoFiles

C6_Witness ==
    \E v \in Variants :
        /\ request[v].built
        /\ MultipartCall
        /\ "prompt" \in DOMAIN data[v] /\ data[v]["prompt"] = None
        /\ DOMAIN request[v].files.parts = {"model"}

(* C7 *)

\* C7: in every built request, payload["model"] is endpoint_id when that is
\* set and the model argument otherwise, it was assigned before the payload
\* was serialized, and the JSON body, the binary body or the file parts carry
\* that value under the key model.
C7_ModelResolved ==
    \A v \in Variants :
        request[v].built =>
            LET resolved == IF EndpointSet(v) THEN target[v].endpoint_id ELSE args.model
                carrier == IF MultipartCall
                           THEN [k \in DOMAIN request[v].files.parts |->
                                    request[v].files.parts[k].value]
                           ELSE request[v].content.fields
            IN  /\ "model" \in DOMAIN data[v]
                /\ data[v]["model"] = resolved
                /\ IsPrefix(<< "check", "url", "inject", "serialize" >>, trace[v])
                /\ "model" \in DOMAIN carrier
                /\ carrier["model"] = resolved

(* C8 *)

\* C8: a call takes its steps in the order check, build, send, translate,
\* return, each at most once; the transport is given at most one request; a
\* response is returned only after the translator ran on it and raised
\* nothing; an exception ends the call, a precondition error before anything
\* was built or sent and a transport error before any translation.
C8_CallOrder ==
    \A v \in Variants :
        /\ IsPrefix(trace[v], CallOrder)
        /\ Len(wire[v]) <= 1
        /\ (outcome[v].kind = "return" =>
                /\ trace[v] = CallOrder
                /\ outcome[v].response = response[v]
                /\ response[v].status >= 200 /\ response[v].status <= 299
                /\ wire[v] = << request[v] >>)
        /\ (outcome[v].kind # "" => pc[v] = "done")
        /\ (outcome[v].kind = "ValueError" =>
                trace[v] = << "check" >> /\ ~request[v].built /\ wire[v] = << >>)
        /\ (outcome[v].kind = "TransportError" =>
                Len(wire[v]) = 1 /\ trace[v][Len(trace[v])] = "send")
        /\ (outcome[v].kind = "APIError" =>
                Len(wire[v]) = 1 /\ trace[v][Len(trace[v])] = "translate")

C8_Witness ==
    /\ outcome["sync"].kind = "return"
    /\ outcome["async"].kind = "return"
    /\ Len(wire["sync"]) = 1

(* C9 *)

\* C9: the call target never changes; at every point of a call every key of
\* the payload other than model is a key of the caller's original payload with
\* its original value, and no such key is missing; a call that failed its
\* precondition check has left the payload as it was.
C9_Frame ==
    /\ [](\A v \in Variants :
            /\ (DOMAIN data[v]) \ {"model"} = (DOMAIN args.data0) \ {"model"}
            /\ \A k \in (DOMAIN data[v]) \ {"model"} : data[v][k] = args.data0[k]
            /\ (outcome[v].kind = "ValueError" => data[v] = args.data0))
    /\ [][target' = target /\ args' = args]_vars

C9_Witness ==
    \E v \in Variants :
        /\ request[v].built
        /\ "prompt" \in DOMAIN args.data0
        /\ "model" \in DOMAIN args.data0
        /\ data[v]["model"] # args.data0["model"]

(* C10 *)

\* C10: once _build_content has run, json_format.ParseDict was invoked exactly
\* when use_protobuf is set and the content type is not multipart; a built
\* request has, for a multipart content type, no body and file parts, else for
\* use_protobuf the binary serialization of the payload, else the JSON text
\* of the payload, and in both latter cases no file parts.
C10_WireEncoding ==
    \A v \in Variants :
        /\ (Serialized(v) =>
                pbParsed[v] = IF target[v].use_protobuf /\ ~MultipartCall THEN 1 ELSE 0)
        /\ (request[v].built =>
                IF MultipartCall
                THEN request[v].content.enc = "none" /\ request[v].files.present
                ELSE IF target[v].use_protobuf
                THEN /\ request[v].content.enc = "pb"
                     /\ DOMAIN request[v].content.fields = NonNullFields(data[v])
                     /\ \A k \in NonNullFields(data[v]) :
                            request[v].content.fields[k] = data[v][k]
                     /\ ~request[v].files.present
                ELSE /\ request[v].content.enc = "json"
                     /\ request[v].content.fields = data[v]
                     /\ ~request[v].files.present)

C10_Witness ==
    \E v \in Variants :
        /\ request[v].built
        /\ MultipartCall
        /\ target[v].use_protobuf
        /\ pbParsed[v] = 0

====
